---- MODULE Spec2Model ----
(***************************************************************************)
(* Model of chatbot.py: a Streamlit travel-planner chat page.              *)
(*                                                                         *)
(* The script is executed top to bottom once per UI interaction ("run").   *)
(* st.session_state (history, user_profile) survives between runs; every   *)
(* other Python variable is local to one run.  A run is split into the     *)
(* steps at which the outside world (the secrets store, the clicked        *)
(* button, the Gemini service) decides what happens next.                  *)
(*                                                                         *)
(* A text is a sequence of tokens (TLA+ strings); "+" is \o and the empty  *)
(* string is << >>.  A Python dict is a function on its set of keys.       *)
(***************************************************************************)
EXTENDS Integers, Sequences, FiniteSets, TLC

(***************************************************************************)
(* Bounds of the model.                                                    *)
(***************************************************************************)
\* Longest turn history at which the page still accepts a new user turn
\* together with its reply (each exchange adds two turns).
MaxHistory == 4
\* Most chunks one stream yields.
MaxChunks == 2

(***************************************************************************)
(* Texts.                                                                  *)
(***************************************************************************)
\* Python's None where a text is expected.
None == <<"<None>">>

\* str.strip() removes leading and trailing whitespace.
IsSpace(c) == c \in {" ", "\n", "\t"}

RECURSIVE LStrip(_)
LStrip(s) == IF s # <<>> /\ IsSpace(Head(s)) THEN LStrip(Tail(s)) ELSE s

RECURSIVE RStrip(_)
RStrip(s) ==
    IF s # <<>> /\ IsSpace(s[Len(s)]) THEN RStrip(SubSeq(s, 1, Len(s) - 1)) ELSE s

\* Strip that strips nothing.
Strip_Nothing(s) == s

Strip(s) == RStrip(LStrip(s))

\* Decimal digits of a natural number, as str(int) / f"{int}" prints them.
Digit(d) == <<"0", "1", "2", "3", "4", "5", "6", "7", "8", "9">>[d + 1]

RECURSIVE IntStr(_)
IntStr(n) == IF n < 10 THEN <<Digit(n)>> ELSE IntStr(n \div 10) \o <<Digit(n % 10)>>

\* n printed with at least w digits, zero padded (date.isoformat()).
RECURSIVE Pad(_, _)
Pad(s, w) == IF Len(s) >= w THEN s ELSE Pad(<<"0">> \o s, w)

\* str(datetime.date): YYYY-MM-DD.  A date is <<year, month, day>>.
DateStr(d) ==
    Pad(IntStr(d[1]), 4) \o <<"-">> \o Pad(IntStr(d[2]), 2) \o <<"-">> \o Pad(IntStr(d[3]), 2)

\* "\n".join(parts)
RECURSIVE Join(_)
Join(parts) ==
    IF parts = <<>> THEN <<>>
    ELSE IF Len(parts) = 1 THEN parts[1]
    ELSE parts[1] \o <<"\n">> \o Join(Tail(parts))

(***************************************************************************)
(* Program constants.                                                      *)
(***************************************************************************)
MODEL_NAME == "gemini-2.5-flash"

SYSTEM_PROMPT == <<"You are a friendly, precise travel-planning assistant. ...">>

(***************************************************************************)
(* What the outside world can supply.                                      *)
(***************************************************************************)
\* Texts typed into the "Message to assistant" box.
UserInputs == { <<>>, <<" ", " ">>, <<"hi">>, <<" ", "hi", "\n">> }

\* Values of the profile form's widgets when "Save trip details" is pressed.
\* start_date is << >> for "no date" (None), else <<year, month, day>>.
FormValues ==
    { [ destination |-> d[1], start_date |-> d[2], nights |-> 3, people |-> 2,
        budget |-> <<"$500">>, travel_style |-> <<"Luxury">> ] :
      d \in { << <<>>, <<2025, 1, 5>> >>,
              << <<"Busan">>, <<>> >> } }

\* No widget value: the run was not started by the profile form.
NoForm ==
    [ destination |-> <<>>, start_date |-> <<>>, nights |-> 2, people |-> 1,
      budget |-> <<>>, travel_style |-> <<"Balanced">> ]

\* Chunks a stream can yield: an object with .text (a text or None), a dict
\* with a "text" key, or anything else; repr is what str(chunk) prints.
Chunks ==
    { [kind |-> "object", text |-> <<"Day ">>, repr |-> <<"<chunk>">>],
      [kind |-> "object", text |-> <<>>,       repr |-> <<"<chunk>">>],
      [kind |-> "object", text |-> None,       repr |-> <<"<chunk>">>],
      [kind |-> "dict",   text |-> <<"1: ">>,  repr |-> <<"{text}">>],
      [kind |-> "other",  text |-> None,       repr |-> <<"1: ">>] }

\* Responses generate_content can return: .text is a text, empty, or None;
\* repr is what str(resp) prints.
Responses ==
    { [text |-> <<"Day 1: ...">>, repr |-> <<"<resp>">>],
      [text |-> <<>>,             repr |-> <<"<resp>">>],
      [text |-> None,             repr |-> <<"<resp>">>] }

NoResponse == [text |-> None, repr |-> <<>>]

\* str(e) of the exceptions the service calls can raise.
Errors == { <<"timeout">>, <<"quota">> }

NoError == <<>>

\* A Python dict with no keys.
EmptyDict == [k \in {} |-> 0]

(***************************************************************************)
(* State.                                                                  *)
(***************************************************************************)
VARIABLES
    secrets,        \* keys present in st.secrets
    session_keys,   \* keys present in st.session_state
    history,        \* st.session_state.history: sequence of <<role, text>>
    user_profile,   \* st.session_state.user_profile: dict
    pc,             \* position of the script: "idle" between runs
    button,         \* the button that started this run, "none" for a load or rerun
    user_input,     \* value of the message text area in this run
    form,           \* values of the profile form's widgets in this run
    contents,       \* the request built for this run, << >> before it is built
    assistant_text, \* accumulator of the streamed pieces
    streamed,       \* the script's streamed flag
    nchunks,        \* chunks this run's stream has yielded
    pieces,         \* the pieces this run's stream has yielded, in order
    writes,         \* the values written into history[-1] in this run, in order
    calls,          \* the service calls made in this run, in order
    resp,           \* what generate_content returned in this run
    err,            \* str(e) of the exception the fallback raised in this run
    warnings,       \* st.warning / st.error messages shown in this run
    history0,       \* history when this run started
    profile0,       \* user_profile when this run started
    invocations     \* orchestrator invocations since the history was last emptied

vars ==
    << secrets, session_keys, history, user_profile, pc, button, user_input, form,
       contents, assistant_text, streamed, nchunks, pieces, writes, calls, resp,
       err, warnings, history0, profile0, invocations >>

session == << session_keys, history, user_profile >>

locals ==
    << contents, assistant_text, streamed, nchunks, pieces, writes, calls, resp,
       err, warnings >>

\* Every run starts with fresh local variables and an empty page.
FreshLocals ==
    /\ contents' = <<>>
    /\ assistant_text' = <<>>
    /\ streamed' = FALSE
    /\ nchunks' = 0
    /\ pieces' = <<>>
    /\ writes' = <<>>
    /\ calls' = <<>>
    /\ resp' = NoResponse
    /\ err' = NoError
    /\ warnings' = <<>>

Init ==
    /\ secrets \in { {}, {"GEMINI_API_KEY"} }
    /\ session_keys = {}
    /\ history = <<>>
    /\ user_profile = EmptyDict
    /\ pc = "top"
    /\ button = "none"
    /\ user_input = <<>>
    /\ form = NoForm
    /\ contents = <<>>
    /\ assistant_text = <<>>
    /\ streamed = FALSE
    /\ nchunks = 0
    /\ pieces = <<>>
    /\ writes = <<>>
    /\ calls = <<>>
    /\ resp = NoResponse
    /\ err = NoError
    /\ warnings = <<>>
    /\ history0 = <<>>
    /\ profile0 = EmptyDict
    /\ invocations = 0

(***************************************************************************)
(* Helpers of the script.                                                  *)
(***************************************************************************)
\* dict.get(key, default)
Get(d, key, default) == IF key \in DOMAIN d THEN d[key] ELSE default

Role(turn) == turn[1]
Text(turn) == turn[2]

Last(h) == h[Len(h)]

\* ReplaceLast that appends the turn instead of overwriting the last one.
ReplaceLast_Append(h, turn) == Append(h, turn)

\* ReplaceLast that overwrites the turn before the last one.
ReplaceLast_Previous(h, turn) == [h EXCEPT ![Len(h) - 1] = turn]

\* history[-1] = turn
ReplaceLast(h, turn) == [h EXCEPT ![Len(h)] = turn]

\* add_message(role, text)
add_message(h, role, text) == Append(h, <<role, text>>)

\* ensure_session(): create the two session keys that do not exist yet.
ensure_session(keys) == keys \cup {"history", "user_profile"}

\* A credential check that never finds the key missing.
KeyMissing_Never == FALSE

\* The credential check of the page's first lines.
KeyMissing == "GEMINI_API_KEY" \notin secrets

\* Python truthiness of a dict entry: present, and not "" / 0.
TruthyText(d, key) == key \in DOMAIN d /\ d[key] # <<>>
TruthyInt(d, key) == key \in DOMAIN d /\ d[key] # 0

\* SavedProfile that keeps the stored destination when the submitted one is
\* empty (a field-by-field merge).
SavedProfile_Merge(f) ==
    [ destination  |-> IF f.destination = <<>>
                       THEN Get(user_profile, "destination", <<>>) ELSE f.destination,
      start_date   |-> IF f.start_date # <<>> THEN DateStr(f.start_date) ELSE <<>>,
      nights       |-> f.nights,
      people       |-> f.people,
      budget       |-> f.budget,
      travel_style |-> f.travel_style ]

\* The dict stored by "Save trip details".
SavedProfile(f) ==
    [ destination  |-> f.destination,
      start_date   |-> IF f.start_date # <<>> THEN DateStr(f.start_date) ELSE <<>>,
      nights       |-> f.nights,
      people       |-> f.people,
      budget       |-> f.budget,
      travel_style |-> f.travel_style ]

ClarifyLine ==
    <<"If any information is missing, ask a short clarifying question before producing the full itinerary.">>

\* prompt_parts of "Plan full itinerary now".
PromptParts(profile) ==
    << <<"Please create a travel plan.">> >>
    \o (IF TruthyText(profile, "destination")
        THEN << <<"Destination: ">> \o profile["destination"] >> ELSE <<>>)
    \o (IF "nights" \in DOMAIN profile
        THEN << <<"Nights: ">> \o IntStr(profile["nights"]) >> ELSE <<>>)
    \o (IF TruthyInt(profile, "people")
        THEN << <<"People: ">> \o IntStr(profile["people"]) >> ELSE <<>>)
    \o (IF TruthyText(profile, "budget")
        THEN << <<"Budget: ">> \o profile["budget"] >> ELSE <<>>)
    \o (IF TruthyText(profile, "travel_style")
        THEN << <<"Travel style: ">> \o profile["travel_style"] >> ELSE <<>>)
    \o << ClarifyLine >>

\* composed = "\n".join(prompt_parts)
ComposePrompt(profile) == Join(PromptParts(profile))

\* A trigger that looks for a user turn after at least one other turn.
Triggered_NeedsTwo(h) == Len(h) > 1 /\ Role(Last(h)) = "user"

\* A trigger that only asks for a non-empty history.
Triggered_NonEmpty(h) == Len(h) > 0

\* The condition under which the script calls the model.
Triggered(h) == Len(h) > 0 /\ Role(Last(h)) = "user"

\* BuildContents that sends the text of every turn of the history.
BuildContents_WholeHistory(h) == << SYSTEM_PROMPT >> \o [i \in 1..Len(h) |-> Text(h[i])]

\* contents: the system prompt, then the latest user text.
BuildContents(h) == << SYSTEM_PROMPT, Text(Last(h)) >>

\* The piece taken from a chunk.
Piece(chunk) ==
    IF chunk.kind = "object" THEN chunk.text
    ELSE IF chunk.kind = "dict" THEN chunk.text
    ELSE chunk.repr

\* Accumulate that puts the new piece in front.
Accumulate_Prepend(acc, piece) == piece \o acc

\* assistant_text += piece
Accumulate(acc, piece) == acc \o piece

\* FallbackText that always takes str(resp).
FallbackText_Str(r) == r.repr

\* getattr(resp, "text", None) or str(resp)
FallbackText(r) == IF r.text # None /\ r.text # <<>> THEN r.text ELSE r.repr

\* ErrMsg that leaves the exception out.
ErrMsg_NoReason(e) == <<"Error calling Gemini API: ">> \o <<". Check your API key and network.">>

\* err_msg
ErrMsg(e) == <<"Error calling Gemini API: ">> \o e \o <<". Check your API key and network.">>

\* The warning of the streaming except branch.
StreamWarning(e) == <<"Streaming failed or not supported in this environment: ">> \o e

Call(api) == [api |-> api, model |-> MODEL_NAME, contents |-> contents]

(***************************************************************************)
(* The page between runs: the user presses one button, which starts a run. *)
(***************************************************************************)
StartRun(b, text, f) ==
    /\ pc = "idle"
    /\ pc' = "top"
    /\ button' = b
    /\ user_input' = text
    /\ form' = f
    /\ history0' = history
    /\ profile0' = user_profile
    /\ FreshLocals
    /\ UNCHANGED << secrets, session, invocations >>

\* Room for one more user turn and its reply.
Room == Len(history) + 2 <= MaxHistory

ClickSave == \E f \in FormValues : StartRun("save", <<>>, f)

ClickSend == \E text \in UserInputs : (Strip(text) = <<>> \/ Room) /\ StartRun("send", text, NoForm)

ClickPlan == Room /\ StartRun("plan", <<>>, NoForm)

ClickClear == StartRun("clear", <<>>, NoForm)

(***************************************************************************)
(* One run of the script.                                                  *)
(***************************************************************************)
\* The credential is missing: st.error, st.stop().
StopOnMissingKey ==
    /\ pc = "top"
    /\ KeyMissing
    /\ pc' = "stopped"
    /\ warnings' = Append(warnings, <<"GEMINI_API_KEY not found in Streamlit secrets.">>)
    /\ UNCHANGED << secrets, session, button, user_input, form, contents, assistant_text,
                    streamed, nchunks, pieces, writes, calls, resp, err, history0,
                    profile0, invocations >>

\* The credential is there: the client is created and ensure_session() runs.
Startup ==
    /\ pc = "top"
    /\ ~KeyMissing
    /\ session_keys' = ensure_session(session_keys)
    /\ history' = IF "history" \in session_keys THEN history ELSE <<>>
    /\ user_profile' = IF "user_profile" \in session_keys THEN user_profile ELSE EmptyDict
    /\ pc' = "buttons"
    /\ UNCHANGED << secrets, button, user_input, form, locals, history0, profile0,
                    invocations >>

\* No button was pressed (first load, or the run after a rerun).
NoButton ==
    /\ pc = "buttons"
    /\ button = "none"
    /\ pc' = "trigger"
    /\ UNCHANGED << secrets, session, button, user_input, form, locals, history0,
                    profile0, invocations >>

\* "Save trip details".
SaveProfile ==
    /\ pc = "buttons"
    /\ button = "save"
    /\ user_profile' = SavedProfile(form)
    /\ pc' = "trigger"
    /\ UNCHANGED << secrets, session_keys, history, button, user_input, form, locals,
                    history0, profile0, invocations >>

\* "Send".
Send ==
    /\ pc = "buttons"
    /\ button = "send"
    /\ IF Strip(user_input) = <<>>
       THEN /\ warnings' = Append(warnings, <<"Please write a message before sending.">>)
            /\ UNCHANGED history
       ELSE /\ history' = add_message(history, "user", Strip(user_input))
            /\ UNCHANGED warnings
    /\ pc' = "trigger"
    /\ UNCHANGED << secrets, session_keys, user_profile, button, user_input, form,
                    contents, assistant_text, streamed, nchunks, pieces, writes, calls,
                    resp, err, history0, profile0, invocations >>

\* "Plan full itinerary now".
PlanFullItinerary ==
    /\ pc = "buttons"
    /\ button = "plan"
    /\ history' = add_message(history, "user", ComposePrompt(user_profile))
    /\ pc' = "trigger"
    /\ UNCHANGED << secrets, session_keys, user_profile, button, user_input, form,
                    locals, history0, profile0, invocations >>

\* ClearChat that resets the whole session state, profile included.
ClearChat_WholeSession ==
    /\ pc = "buttons"
    /\ button = "clear"
    /\ history' = <<>>
    /\ user_profile' = EmptyDict
    /\ invocations' = 0
    /\ pc' = "trigger"
    /\ UNCHANGED << secrets, session_keys, button, user_input, form, locals, history0,
                    profile0 >>

\* "Clear chat".
ClearChat ==
    /\ pc = "buttons"
    /\ button = "clear"
    /\ history' = <<>>
    /\ invocations' = 0
    /\ pc' = "trigger"
    /\ UNCHANGED << secrets, session_keys, user_profile, button, user_input, form,
                    locals, history0, profile0 >>

\* The last turn is not a user turn: the script ends and the page waits.
EndRun ==
    /\ pc = "trigger"
    /\ ~Triggered(history)
    /\ pc' = "idle"
    /\ button' = "none"
    /\ user_input' = <<>>
    /\ form' = NoForm
    /\ history0' = history
    /\ profile0' = user_profile
    /\ FreshLocals
    /\ UNCHANGED << secrets, session, invocations >>

\* BeginReply without the placeholder append: history[-1] is then the user turn.
BeginReply_NoPlaceholder ==
    /\ pc = "trigger"
    /\ Triggered(history)
    /\ contents' = BuildContents(history)
    /\ invocations' = invocations + 1
    /\ pc' = "open"
    /\ UNCHANGED << secrets, session, button, user_input, form, assistant_text,
                    streamed, nchunks, pieces, writes, calls, resp, err, warnings,
                    history0, profile0 >>

\* The last turn is a user turn: build the request, append the placeholder.
BeginReply ==
    /\ pc = "trigger"
    /\ Triggered(history)
    /\ contents' = BuildContents(history)
    /\ history' = add_message(history, "assistant", <<>>)
    /\ invocations' = invocations + 1
    /\ pc' = "open"
    /\ UNCHANGED << secrets, session_keys, user_profile, button, user_input, form,
                    assistant_text, streamed, nchunks, pieces, writes, calls, resp, err,
                    warnings, history0, profile0 >>

\* client.models has none of the streaming methods: stream stays None.
StreamUnsupported ==
    /\ pc = "open"
    /\ pc' = "fallback"
    /\ UNCHANGED << secrets, session, button, user_input, form, locals, history0,
                    profile0, invocations >>

\* The streaming call raises.
OpenRaises ==
    /\ pc = "open"
    /\ \E e \in Errors :
        /\ calls' = Append(calls, Call("stream"))
        /\ warnings' = Append(warnings, StreamWarning(e))
    /\ streamed' = FALSE
    /\ pc' = "fallback"
    /\ UNCHANGED << secrets, session, button, user_input, form, contents,
                    assistant_text, nchunks, pieces, writes, resp, err, history0,
                    profile0, invocations >>

\* The streaming call returns a stream.
StreamOpened ==
    /\ pc = "open"
    /\ calls' = Append(calls, Call("stream"))
    /\ streamed' = TRUE
    /\ pc' = "streaming"
    /\ UNCHANGED << secrets, session, button, user_input, form, contents,
                    assistant_text, nchunks, pieces, writes, resp, err, warnings,
                    history0, profile0, invocations >>

\* The stream yields a chunk.  A piece that is None makes += raise TypeError.
StreamChunk ==
    /\ pc = "streaming"
    /\ nchunks < MaxChunks
    /\ \E chunk \in Chunks :
        /\ nchunks' = nchunks + 1
        /\ IF Piece(chunk) = None
           THEN /\ warnings' = Append(warnings, StreamWarning(<<"TypeError">>))
                /\ streamed' = FALSE
                /\ pc' = "fallback"
                /\ UNCHANGED << history, assistant_text, pieces, writes >>
           ELSE /\ assistant_text' = Accumulate(assistant_text, Piece(chunk))
                /\ history' = ReplaceLast(history, <<"assistant", assistant_text'>>)
                /\ pieces' = Append(pieces, Piece(chunk))
                /\ writes' = Append(writes, Text(Last(history')))
                /\ UNCHANGED << warnings, streamed, pc >>
    /\ UNCHANGED << secrets, session_keys, user_profile, button, user_input, form,
                    contents, calls, resp, err, history0, profile0, invocations >>

\* StreamRaises whose except branch leaves streamed set, so that the fallback
\* is skipped.
StreamRaises_KeepsFlag ==
    /\ pc = "streaming"
    /\ \E e \in Errors : warnings' = Append(warnings, StreamWarning(e))
    /\ pc' = "rerun"
    /\ UNCHANGED << secrets, session, button, user_input, form, contents,
                    assistant_text, streamed, nchunks, pieces, writes, calls, resp, err,
                    history0, profile0, invocations >>

\* Iterating the stream raises.
StreamRaises ==
    /\ pc = "streaming"
    /\ \E e \in Errors : warnings' = Append(warnings, StreamWarning(e))
    /\ streamed' = FALSE
    /\ pc' = "fallback"
    /\ UNCHANGED << secrets, session, button, user_input, form, contents,
                    assistant_text, nchunks, pieces, writes, calls, resp, err, history0,
                    profile0, invocations >>

\* The stream is exhausted.
StreamEnd ==
    /\ pc = "streaming"
    /\ pc' = "rerun"
    /\ UNCHANGED << secrets, session, button, user_input, form, locals, history0,
                    profile0, invocations >>

\* FallbackReturns that adds the response's text to what the failed stream
\* had accumulated.
FallbackReturns_KeepsPartial ==
    /\ pc = "fallback"
    /\ ~streamed
    /\ \E r \in Responses :
        /\ resp' = r
        /\ assistant_text' = assistant_text \o FallbackText(r)
    /\ calls' = Append(calls, Call("generate"))
    /\ history' = ReplaceLast(history, <<"assistant", assistant_text'>>)
    /\ writes' = Append(writes, Text(Last(history')))
    /\ pc' = "rerun"
    /\ UNCHANGED << secrets, session_keys, user_profile, button, user_input, form,
                    contents, streamed, nchunks, pieces, err, warnings, history0,
                    profile0, invocations >>

\* Not streamed: generate_content returns a response.
FallbackReturns ==
    /\ pc = "fallback"
    /\ ~streamed
    /\ \E r \in Responses :
        /\ resp' = r
        /\ assistant_text' = FallbackText(r)
    /\ calls' = Append(calls, Call("generate"))
    /\ history' = ReplaceLast(history, <<"assistant", assistant_text'>>)
    /\ writes' = Append(writes, Text(Last(history')))
    /\ pc' = "rerun"
    /\ UNCHANGED << secrets, session_keys, user_profile, button, user_input, form,
                    contents, streamed, nchunks, pieces, err, warnings, history0,
                    profile0, invocations >>

\* FallbackRaises without the except branch: the exception ends the run.
FallbackRaises_Uncaught ==
    /\ pc = "fallback"
    /\ ~streamed
    /\ \E e \in Errors : err' = e
    /\ calls' = Append(calls, Call("generate"))
    /\ pc' = "crashed"
    /\ UNCHANGED << secrets, session, button, user_input, form, contents,
                    assistant_text, streamed, nchunks, pieces, writes, resp, warnings,
                    history0, profile0, invocations >>

\* Not streamed: generate_content raises.
FallbackRaises ==
    /\ pc = "fallback"
    /\ ~streamed
    /\ \E e \in Errors :
        /\ err' = e
        /\ history' = ReplaceLast(history, <<"assistant", ErrMsg(e)>>)
    /\ calls' = Append(calls, Call("generate"))
    /\ writes' = Append(writes, Text(Last(history')))
    /\ pc' = "rerun"
    /\ UNCHANGED << secrets, session_keys, user_profile, button, user_input, form,
                    contents, assistant_text, streamed, nchunks, pieces, resp, warnings,
                    history0, profile0, invocations >>

\* st.experimental_rerun(): the script starts again, no button pressed.
Rerun ==
    /\ pc = "rerun"
    /\ pc' = "top"
    /\ button' = "none"
    /\ user_input' = <<>>
    /\ form' = NoForm
    /\ history0' = history
    /\ profile0' = user_profile
    /\ FreshLocals
    /\ UNCHANGED << secrets, session, invocations >>

Next ==
    \/ ClickSave
    \/ ClickSend
    \/ ClickPlan
    \/ ClickClear
    \/ StopOnMissingKey
    \/ Startup
    \/ NoButton
    \/ SaveProfile
    \/ Send
    \/ PlanFullItinerary
    \/ ClearChat
    \/ EndRun
    \/ BeginReply
    \/ StreamUnsupported
    \/ OpenRaises
    \/ StreamOpened
    \/ StreamChunk
    \/ StreamRaises
    \/ StreamEnd
    \/ FallbackReturns
    \/ FallbackRaises
    \/ Rerun

Spec == Init /\ [][Next]_vars

\* The steps of a run: the interpreter keeps executing the script, every
\* service call returns or raises, and a stream is finite.
RunStep ==
    \/ StopOnMissingKey \/ Startup \/ NoButton \/ SaveProfile \/ Send
    \/ PlanFullItinerary \/ ClearChat \/ EndRun \/ BeginReply \/ StreamUnsupported
    \/ OpenRaises \/ StreamOpened \/ StreamChunk \/ StreamRaises \/ StreamEnd
    \/ FallbackReturns \/ FallbackRaises \/ Rerun

FairSpec == Spec /\ WF_vars(RunStep)

(***************************************************************************)
(* Properties.                                                             *)
(***************************************************************************)
\* Turn i is a user turn for odd i and an assistant turn for even i.
Alternates(h) ==
    \A i \in 1..Len(h) : Role(h[i]) = IF i % 2 = 1 THEN "user" ELSE "assistant"

\* The script is inside the block that answers a user turn.
Replying == pc \in {"open", "streaming", "fallback"}

\* C1: the turn history strictly alternates user, assistant, user, ... from
\* its first turn on (so a user turn is never followed by another user turn
\* or by two assistant turns), and whenever its last turn is a user turn it
\* eventually ends in that turn's assistant turn.
C1_Alternation ==
    /\ [](Alternates(history))
    /\ (Triggered(history) ~> (Len(history) % 2 = 0 /\ pc = "rerun"))

\* Two messages were sent and both were answered.
C1_Witness ==
    /\ pc = "rerun"
    /\ Len(history) = 4
    /\ Text(history[1]) = <<"hi">>
    /\ Text(history[3]) = <<"hi">>
    /\ Role(history[4]) = "assistant"

\* The run reached its last line with the reply written.
Resolved == pc = "rerun"

\* The service calls of this run made through api.
CallsTo(api) == { i \in 1..Len(calls) : calls[i].api = api }

\* C2 (as claimed): once the reply is resolved, through whichever branch, the
\* history ends in an assistant turn whose text is not empty, and the trigger
\* condition is false.
C2_NeverBlank ==
    Resolved =>
        /\ history # <<>>
        /\ Role(Last(history)) = "assistant"
        /\ Text(Last(history)) # <<>>
        /\ ~Triggered(history)

\* The streaming attempt did not open a channel: no streaming method, or the
\* call raised before any chunk was yielded.
OpenFailed == pc \in {"fallback", "rerun"} /\ ~streamed /\ nchunks = 0

\* The fallback returned a response in this run.
FallbackReturned == Resolved /\ resp # NoResponse

\* C3 (as claimed): when the channel fails to open and the fallback returns,
\* exactly one generate call was made, the final assistant text is the
\* returned text verbatim, and from an empty history there are exactly the
\* two turns user, assistant.
C3_Verbatim ==
    (OpenFailed /\ FallbackReturned /\ resp.text # None) =>
        /\ Cardinality(CallsTo("generate")) = 1
        /\ Last(history) = <<"assistant", resp.text>>
        /\ (history0 = <<>> => Len(history) = 2 /\ Role(history[1]) = "user")

\* C3 (amended): when the channel fails to open and the fallback returns,
\* exactly one generate call was made and the final assistant text is the
\* returned text verbatim when that text is not empty, and the response's
\* string form when the text is empty or absent; from an empty history there
\* are exactly the two turns user, assistant.
C3_VerbatimUnlessEmpty ==
    (OpenFailed /\ FallbackReturned) =>
        /\ Cardinality(CallsTo("generate")) = 1
        /\ Last(history) =
              <<"assistant", IF resp.text \in {None, <<>>} THEN resp.repr ELSE resp.text>>
        /\ (history0 = <<>> => Len(history) = 2 /\ Role(history[1]) = "user")

\* The channel could not be opened, the fallback returned a text, and the
\* history is the one exchange.
C3_Witness ==
    /\ OpenFailed
    /\ FallbackReturned
    /\ resp.text = <<"Day 1: ...">>
    /\ history0 = <<>>
    /\ history = << <<"user", <<"hi">> >>, <<"assistant", <<"Day 1: ...">> >> >>

\* The concatenation of a sequence of texts.
RECURSIVE Flatten(_)
Flatten(ts) == IF ts = <<>> THEN <<>> ELSE ts[1] \o Flatten(Tail(ts))

\* C4: while a stream is consumed, and once it is drained, the i-th value
\* written into the in-flight assistant turn is the concatenation of the
\* first i pieces in the order the stream yielded them; nothing else was
\* written, and the turn holds the concatenation of all pieces so far.
C4_PrefixMonotonic ==
    /\ Len(writes) >= Len(pieces)
    /\ \A i \in 1..Len(pieces) : writes[i] = Flatten(SubSeq(pieces, 1, i))
    /\ (streamed /\ pc \in {"streaming", "rerun"}) =>
          /\ Len(writes) = Len(pieces)
          /\ Last(history) = <<"assistant", Flatten(pieces)>>

\* Two different pieces were streamed and the stream was drained.
C4_Witness ==
    /\ Resolved
    /\ streamed
    /\ pieces = << <<"Day ">>, <<"1: ">> >>
    /\ writes = << <<"Day ">>, <<"Day ", "1: ">> >>

\* A text with nothing but whitespace in it.
Blank(s) == \A i \in 1..Len(s) : s[i] \in {" ", "\n", "\t"}

\* C5: a run started by Send with an empty or whitespace-only message leaves
\* the history as it was, never enters the reply block and calls no service.
C5_BlankSendNoOp ==
    (button = "send" /\ Blank(user_input)) =>
        /\ history = history0
        /\ calls = <<>>
        /\ ~Replying
        /\ ~Resolved

\* A whitespace-only message was sent into a conversation and the run is over
\* its handler.
C5_Witness ==
    /\ button = "send"
    /\ user_input = <<" ", " ">>
    /\ pc = "trigger"
    /\ Len(history0) = 2
    /\ warnings # <<>>

\* C6: in a run started by Clear chat the history is empty once the handler
\* has run, and the profile is what it was when the run started; the run
\* never enters the reply block.
C6_ClearKeepsProfile ==
    (button = "clear") =>
        /\ user_profile = profile0
        /\ (pc = "trigger" => history = <<>>)
        /\ pc \in {"top", "buttons", "trigger"}

\* A conversation was cleared while a saved profile was stored.
C6_Witness ==
    /\ button = "clear"
    /\ pc = "trigger"
    /\ Len(history0) = 4
    /\ history = <<>>
    /\ "start_date" \in DOMAIN user_profile
    /\ user_profile["destination"] = <<"Busan">>

\* t occurs in s as a run of consecutive tokens.
Contains(s, t) ==
    \E i \in 0..(Len(s) - Len(t)) : SubSeq(s, i + 1, i + Len(t)) = t

\* How a profile entry is printed, whether it holds a value, and the label
\* that introduces it in the message.
Shown(key, value) == IF key \in {"nights", "people"} THEN IntStr(value) ELSE value
HoldsValue(key, value) == key \in {"nights", "people"} \/ value # <<>>
FieldLabel(key) ==
    CASE key = "destination"  -> "Destination: "
      [] key = "start_date"   -> "Start date: "
      [] key = "nights"       -> "Nights: "
      [] key = "people"       -> "People: "
      [] key = "budget"       -> "Budget: "
      [] key = "travel_style" -> "Travel style: "

\* C7 (as claimed): Plan full itinerary appends exactly one user turn; every
\* profile field that holds a value appears in its text and no empty field is
\* mentioned, the clarifying instruction is its last line, and the reply block
\* then runs for that turn as it does for a typed message.
C7_EveryFieldAppears ==
    (button = "plan" /\ pc \notin {"top", "buttons"}) =>
        /\ Len(history) >= Len(history0) + 1
        /\ SubSeq(history, 1, Len(history0)) = history0
        /\ Role(history[Len(history0) + 1]) = "user"
        /\ LET text == Text(history[Len(history0) + 1]) IN
              /\ \A key \in DOMAIN user_profile :
                    IF HoldsValue(key, user_profile[key])
                    THEN Contains(text, Shown(key, user_profile[key]))
                    ELSE ~Contains(text, <<FieldLabel(key)>>)
              /\ Contains(text, <<"\n">> \o ClarifyLine)
        /\ (pc # "trigger" => Len(history) = Len(history0) + 2)

\* C8: when the fallback call raises, the run still reaches its last line;
\* the last turn is the assistant turn of this run, its text is the
\* user-facing error message with the exception's text inside it, and the
\* rest of the session state is as before.
C8_FallbackErrorContained ==
    (err # NoError) =>
        /\ Resolved
        /\ Role(Last(history)) = "assistant"
        /\ Head(Text(Last(history))) = "Error calling Gemini API: "
        /\ Contains(Text(Last(history)), err)
        /\ SubSeq(history, 1, Len(history0)) = history0
        /\ Len(history) = Len(history0) + 2
        /\ user_profile = profile0
        /\ ENABLED Rerun

\* A turn was answered with an error message, and a later message of the same
\* session was answered by the service.
C8_Witness ==
    /\ Resolved
    /\ Len(history) = 4
    /\ Contains(Text(history[2]), <<"quota">>)
    /\ Head(Text(history[2])) = "Error calling Gemini API: "
    /\ Text(history[4]) = <<"Day 1: ...">>

\* C9: without the credential the script stops at its first lines: no session
\* key is created, no button is handled, nothing is sent to the service.
C9_MissingKeyHalts ==
    ("GEMINI_API_KEY" \notin secrets) =>
        /\ session_keys = {}
        /\ history = <<>>
        /\ user_profile = EmptyDict
        /\ calls = <<>>
        /\ button = "none"
        /\ pc \in {"top", "stopped"}

\* The script stopped with the error shown.
C9_Witness ==
    /\ "GEMINI_API_KEY" \notin secrets
    /\ pc = "stopped"
    /\ Len(warnings) = 1
    /\ session_keys = {}

\* The user turns of a history.
UserTurns(h) == { i \in 1..Len(h) : Role(h[i]) = "user" }

\* C10: a run enters the reply block exactly when, at the trigger check, the
\* history is non-empty and its last turn is a user turn; there are never more
\* invocations than user turns, a run makes at most one streaming call and at
\* most one fallback call, and while the reply block runs the trigger
\* condition is false.
C10_TriggerOnce ==
    /\ [][ (pc = "trigger") =>
              ((pc' = "open") <=> (history # <<>> /\ history[Len(history)][1] = "user")) ]_vars
    /\ [](/\ invocations <= Cardinality(UserTurns(history))
          /\ Cardinality(CallsTo("stream")) <= 1
          /\ Cardinality(CallsTo("generate")) <= 1
          /\ Len(calls) <= 2
          /\ (Replying \/ Resolved) => Role(Last(history)) = "assistant")

\* The second user turn of a conversation was answered by a streaming call
\* followed by a fallback call.
C10_Witness ==
    /\ Resolved
    /\ invocations = 2
    /\ Cardinality(UserTurns(history)) = 2
    /\ Len(calls) = 2

\* C11: while a reply is being produced, and when it is resolved, the history
\* is the history of the start of the run, then the user turn that triggered
\* the reply, then one assistant turn: the turn in flight is the last one and
\* the only one, and no turn was appended or removed since the placeholder.
C11_OneInFlightLast ==
    (Replying \/ Resolved) =>
        /\ button \in {"send", "plan"}
        /\ Len(history) = Len(history0) + 2
        /\ SubSeq(history, 1, Len(history) - 1)
              = Append(history0, <<"user", contents[2]>>)
        /\ Role(Last(history)) = "assistant"
        /\ (Replying /\ writes = <<>> => Text(Last(history)) = <<>>)
        /\ (writes # <<>> => Text(Last(history)) = writes[Len(writes)])

\* The second reply of a conversation is being streamed, one piece in.
C11_Witness ==
    /\ pc = "streaming"
    /\ Len(history) = 4
    /\ Len(pieces) = 1
    /\ Text(history[4]) = <<"Day ">>
    /\ Text(history[2]) # <<"Day ">>

\* C12: every step that issues a service call starts in a state whose last
\* turn is the assistant turn appended for the triggering user turn, which is
\* the turn before it; when the streaming call is issued that assistant turn
\* is still the empty placeholder and no call has been made yet.
C12_PlaceholderBeforeCall ==
    [][ (calls' # calls /\ calls' # <<>>) =>
           /\ Len(history) >= 2
           /\ Role(history[Len(history)]) = "assistant"
           /\ history[Len(history) - 1] = <<"user", contents[2]>>
           /\ Len(history) = Len(history0) + 2
           /\ (calls'[Len(calls')].api = "stream" =>
                  /\ calls = <<>>
                  /\ history[Len(history)] = <<"assistant", <<>>>>) ]_vars

\* A streaming call and then a fallback call were issued for the second user
\* turn of a conversation.
C12_Witness ==
    /\ Len(calls) = 2
    /\ calls[1].api = "stream"
    /\ calls[2].api = "generate"
    /\ Len(history) = 4

\* The warning of the streaming except branch is on the page.
StreamFailureShown ==
    \E i \in 1..Len(warnings) :
        Head(warnings[i]) = "Streaming failed or not supported in this environment: "

\* C13: once the reply is resolved, the fallback call was made exactly when
\* the attempt was not streamed, that is when no streaming call could be made
\* or the streaming attempt raised (a warning was shown), after however many
\* pieces; it was one call with the request of the streaming attempt, and what
\* it wrote, the response's text or the error message, is the text of the last
\* turn, whatever pieces had been accumulated.  A streaming failure only shows
\* a warning: the run goes on to the fallback.
C13_FallbackIffNotStreamed ==
    /\ (Resolved =>
          /\ (CallsTo("generate") # {}) <=> ~streamed
          /\ ~streamed <=> (CallsTo("stream") = {} \/ StreamFailureShown)
          /\ Cardinality(CallsTo("generate")) <= 1
          /\ \A i \in 1..Len(calls) : calls[i].contents = contents
          /\ (~streamed =>
                /\ (resp # NoResponse) # (err # NoError)
                /\ resp # NoResponse =>
                      Text(Last(history)) \in {resp.text, resp.repr} \ {None, <<>>}
                /\ err # NoError => Contains(Text(Last(history)), err)))
    /\ (StreamFailureShown => pc \in {"fallback", "rerun"} /\ ~streamed)

\* The stream raised after a piece had been written, and the fallback's text
\* replaced it.
C13_Witness ==
    /\ Resolved
    /\ pieces = << <<"Day ">> >>
    /\ writes = << <<"Day ">>, <<"Day 1: ...">> >>
    /\ Len(warnings) = 1
    /\ Last(history) = <<"assistant", <<"Day 1: ...">> >>

\* C14: every call of a run carries the same two-part request: the fixed
\* system instruction, then the text of the user turn that triggered the
\* reply (the turn appended in this run, last at trigger time), and nothing
\* of the earlier turns.
C14_RequestIsLatestUserText ==
    \A i \in 1..Len(calls) :
        /\ calls[i].model = "gemini-2.5-flash"
        /\ Len(calls[i].contents) = 2
        /\ calls[i].contents[1] = SYSTEM_PROMPT
        /\ history[Len(history0) + 1] = <<"user", calls[i].contents[2]>>

\* A typed message is answered after a planned itinerary was answered: both
\* calls carry only the typed message.
C14_Witness ==
    /\ Len(calls) = 2
    /\ Len(history) = 4
    /\ Text(history[1]) # <<"hi">>
    /\ calls[1].contents = << SYSTEM_PROMPT, <<"hi">> >>
    /\ calls[2].contents = << SYSTEM_PROMPT, <<"hi">> >>

\* C15: every step leaves the history as it is, empties it (Clear chat),
\* appends one turn to it, or overwrites its last turn; an overwrite happens
\* only inside the reply block, on a non-empty history whose last turn is the
\* assistant turn being filled, and leaves every other turn as it was.
C15_AppendOnlyButLast ==
    [][ \/ history' = history
        \/ history' = <<>> /\ button = "clear"
        \/ Len(history') = Len(history) + 1 /\ SubSeq(history', 1, Len(history)) = history
        \/ /\ Replying
           /\ history # <<>>
           /\ Len(history') = Len(history)
           /\ \A i \in 1..(Len(history) - 1) : history'[i] = history[i]
           /\ Role(history[Len(history)]) = "assistant"
           /\ Role(history'[Len(history)]) = "assistant" ]_vars

\* The second assistant turn of a conversation was overwritten twice while
\* the first exchange stayed as it was.
C15_Witness ==
    /\ Len(writes) = 2
    /\ Len(history) = 4
    /\ SubSeq(history, 1, 2) = SubSeq(history0, 1, 2)
    /\ Text(history[4]) # Text(history[2])

\* C16 (as claimed): in a run started by Save trip details, once the handler
\* has run the stored profile equals the submitted record in every field, and
\* the history is the history of the start of the run.
C16_StoredEqualsSubmitted ==
    (button = "save" /\ pc = "trigger") =>
        /\ history = history0
        /\ DOMAIN user_profile = DOMAIN form
        /\ \A key \in DOMAIN form : user_profile[key] = form[key]

\* C16 (amended): in a run started by Save trip details, once the handler has
\* run the stored profile has exactly the six fields of the form, each with
\* the value submitted in this run whatever the profile was before, except that
\* the start date is stored as text: the ISO form of the chosen date, and the
\* empty text when no date was chosen; the history is the history of the start
\* of the run.
C16_SaveReplacesWholesale ==
    (button = "save") =>
        /\ history = history0
        /\ pc \in {"top", "buttons", "trigger"}
        /\ (pc = "trigger" =>
              /\ DOMAIN user_profile =
                    {"destination", "start_date", "nights", "people", "budget", "travel_style"}
              /\ user_profile["destination"] = form.destination
              /\ user_profile["start_date"] =
                    (IF form.start_date = <<>> THEN <<>>
                     ELSE <<"2", "0", "2", "5", "-", "0", "1", "-", "0", "5">>)
              /\ user_profile["nights"] = form.nights
              /\ user_profile["people"] = form.people
              /\ user_profile["budget"] = form.budget
              /\ user_profile["travel_style"] = form.travel_style)

\* A profile with a date and no destination replaced one with a destination
\* and no date, during a conversation.
C16_Witness ==
    /\ button = "save"
    /\ pc = "trigger"
    /\ Len(history) = 2
    /\ "start_date" \in DOMAIN profile0
    /\ profile0["destination"] = <<"Busan">>
    /\ profile0["start_date"] = <<>>
    /\ user_profile["destination"] = <<>>
    /\ user_profile["start_date"] # <<>>

\* The last turn holds the value its reply ends with: the streamed pieces of a
\* drained stream, or what the one fallback call wrote.
FinalValueWritten ==
    /\ Role(Last(history)) = "assistant"
    /\ IF streamed
       THEN CallsTo("generate") = {} /\ Len(writes) = Len(pieces)
       ELSE CallsTo("generate") # {} /\ writes # <<>>
    /\ (writes # <<>> => Text(Last(history)) = writes[Len(writes)])

\* C17: a run that entered the reply block always reaches the rerun at its
\* last line, through whichever branch; the rerun is reached only with the
\* final value in the last assistant turn, and the run that the rerun starts
\* leaves the history as it found it.
C17_RunsToCompletionThenRerun ==
    /\ (Replying ~> Resolved)
    /\ [](Resolved => FinalValueWritten)
    /\ [][Resolved => (pc' = "top" /\ button' = "none" /\ history' = history)]_vars
    /\ [](button = "none" => history = history0)

\* The rerun is reached after a stream of two pieces failed and the fallback
\* raised as well.
C17_Witness ==
    /\ Resolved
    /\ Len(pieces) = 2
    /\ ~streamed
    /\ err # NoError
    /\ FinalValueWritten

\* The error message of the fallback's except branch for exception text e.
ErrorText(e) ==
    <<"Error calling Gemini API: ">> \o e \o <<". Check your API key and network.">>

\* C18 (as claimed): the text of a resolved assistant turn is the
\* concatenation of all pieces of a stream that drained without error, no
\* fallback call having been made, or the text the fallback call returned, or
\* the error message built from the fallback's failure, and nothing else.
C18_OneOfThreeTexts ==
    Resolved =>
        LET text == Text(Last(history)) IN
        \/ streamed /\ CallsTo("generate") = {} /\ ~StreamFailureShown
             /\ text = Flatten(pieces)
        \/ ~streamed /\ resp # NoResponse /\ (resp.text = None \/ text = resp.text)
        \/ ~streamed /\ err # NoError /\ text = ErrorText(err)

\* C18 (amended): the text of a resolved assistant turn is the concatenation
\* of all pieces of a stream that drained without error, no fallback call
\* having been made, or the text the fallback call returned when that text is
\* not empty and the response's string form when it is empty or absent, or the
\* error message built from the fallback's failure, and nothing else; in the
\* two fallback cases no piece of a failed stream remains.
C18_OneOfThreeTextsOrRepr ==
    Resolved =>
        LET text == Text(Last(history)) IN
        \/ streamed /\ CallsTo("generate") = {} /\ ~StreamFailureShown
             /\ text = Flatten(pieces)
        \/ ~streamed /\ resp # NoResponse /\ err = NoError
             /\ text = (IF resp.text \in {None, <<>>} THEN resp.repr ELSE resp.text)
        \/ ~streamed /\ err # NoError /\ resp = NoResponse /\ text = ErrorText(err)

\* A stream failed after two pieces and the fallback's text is all that is
\* left in the turn.
C18_Witness ==
    /\ Resolved
    /\ pieces = << <<"Day ">>, <<"1: ">> >>
    /\ ~streamed
    /\ Text(Last(history)) = <<"Day 1: ...">>

\* The page waits for the next button press.
Settled == pc = "idle"

\* C19: whenever the page waits for the next button press the history is
\* empty, or it starts with a user turn, has even length and ends with an
\* assistant turn; it holds user and assistant turns only, never a system
\* turn.
C19_SettledShape ==
    Settled =>
        /\ \A i \in 1..Len(history) : history[i][1] \in {"user", "assistant"}
        /\ \/ history = <<>>
           \/ /\ history[1][1] = "user"
              /\ Len(history) % 2 = 0
              /\ history[Len(history)][1] = "assistant"

\* The page waits with two answered exchanges, a planned itinerary and a typed
\* message, after a profile was saved.
C19_Witness ==
    /\ Settled
    /\ Len(history) = 4
    /\ Text(history[3]) = <<"hi">>
    /\ Text(history[1]) # <<"hi">>
    /\ user_profile # EmptyDict

====
